---- MODULE Spec2Model ----
(***************************************************************************)
(* seqan3::detail::join_with_view (seqan3::views::join_with): the lazy      *)
(* view that flattens a range of ranges and inserts a pattern between       *)
(* every two consecutive inner ranges.                                      *)
(*                                                                          *)
(* Iterator positions are 1-based indices into the range they run over;     *)
(* the end position of a range s is Len(s) + 1.  A value-initialised        *)
(* iterator is the position 0.                                              *)
(***************************************************************************)
EXTENDS Integers, Sequences, FiniteSets, TLC

VARIABLES view, cfg, ctor, it, out, rout, pc, cmp, cap, owner

vars ==
    <<view, cfg, ctor, it, out, rout, pc, cmp, cap, owner>>

(***************************************************************************)
(* Bounds of the checked inputs.                                            *)
(***************************************************************************)
MaxOuter ==
    3

MaxInner ==
    2

MaxPat ==
    2

(***************************************************************************)
(* Inputs.  The view never inspects an element, so an input is a shape      *)
(* (the lengths of the inner ranges and of the pattern) and a scheme        *)
(* that fills it: "distinct" gives every element of every inner range and   *)
(* of the pattern its own value, "same" gives all of them one value (the    *)
(* pattern then occurs inside inner ranges and overlaps itself).            *)
(***************************************************************************)
Schemes ==
    {"distinct", "same"}

Shapes ==
    UNION {[1..n -> 0..MaxInner] : n \in 0..MaxOuter}

InnerElem(scheme, i, j) ==
    IF scheme = "distinct" THEN i * (MaxInner + 1) + j ELSE 0

PatElem(scheme, k) ==
    IF scheme = "distinct" THEN 0 - k ELSE 0

MakeOuter(scheme, shape) ==
    [i \in 1..Len(shape) |-> [j \in 1..shape[i] |-> InnerElem(scheme, i, j)]]

MakePattern(scheme, n) ==
    [k \in 1..n |-> PatElem(scheme, k)]

(***************************************************************************)
(* The configuration of a view type: what the template arguments V and      *)
(* Pattern offer.                                                           *)
(***************************************************************************)
Cats ==
    {"input", "forward", "bidirectional"}

ForwardCats ==
    {"forward", "bidirectional"}

\* Pattern is constrained to std::ranges::forward_range.
AllCfgs ==
    [glvalue : BOOLEAN, outerCat : Cats, innerCat : Cats, patCat : ForwardCats,
     outerCommon : BOOLEAN, innerCommon : BOOLEAN, patCommon : BOOLEAN,
     lvalueRef : BOOLEAN]

bidirectional_common(cat, common) ==
    cat = "bidirectional" /\ common

\* ref_is_glvalue that is false for every inner range.
ref_is_glvalue_never(c) ==
    FALSE

ref_is_glvalue(c) ==
    c.glvalue

\* iterator_concept that does not ask the pattern to be a common range.
iterator_concept_pattern_not_common(c) ==
    IF ~ref_is_glvalue(c) THEN "input"
    ELSE IF /\ c.outerCat = "bidirectional"
            /\ bidirectional_common(c.innerCat, c.innerCommon)
            /\ c.patCat = "bidirectional"
         THEN "bidirectional"
    ELSE IF c.outerCat \in ForwardCats /\ c.innerCat \in ForwardCats
         THEN "forward"
    ELSE "input"

iterator_concept(c) ==
    IF ~ref_is_glvalue(c) THEN "input"
    ELSE IF /\ c.outerCat = "bidirectional"
            /\ bidirectional_common(c.innerCat, c.innerCommon)
            /\ bidirectional_common(c.patCat, c.patCommon)
         THEN "bidirectional"
    ELSE IF c.outerCat \in ForwardCats /\ c.innerCat \in ForwardCats
         THEN "forward"
    ELSE "input"

\* Only defined when ref_is_glvalue: "none" is the empty specialisation.
iterator_category(c) ==
    IF ~ref_is_glvalue(c) THEN "none"
    ELSE IF ~c.lvalueRef THEN "input"
    ELSE IF /\ c.outerCat = "bidirectional"
            /\ c.innerCat = "bidirectional"
            /\ c.patCat = "bidirectional"
            /\ c.innerCommon /\ c.patCommon
         THEN "bidirectional"
    ELSE IF /\ c.outerCat \in ForwardCats
            /\ c.innerCat \in ForwardCats
            /\ c.patCat \in ForwardCats
         THEN "forward"
    ELSE "input"

\* The requires-clause of operator--.
has_decrement(c) ==
    /\ ref_is_glvalue(c)
    /\ c.outerCat = "bidirectional"
    /\ bidirectional_common(c.innerCat, c.innerCommon)
    /\ bidirectional_common(c.patCat, c.patCommon)

\* The if constexpr of end() without common_range<InnerRng>.
end_is_iterator_inner_not_common(c) ==
    /\ c.outerCat \in ForwardCats
    /\ ref_is_glvalue(c)
    /\ c.innerCat \in ForwardCats
    /\ c.outerCommon

\* The if constexpr of end(): an iterator, otherwise a sentinel.
end_is_iterator(c) ==
    /\ c.outerCat \in ForwardCats
    /\ ref_is_glvalue(c)
    /\ c.innerCat \in ForwardCats
    /\ c.outerCommon
    /\ c.innerCommon

\* A read through an iterator that is not inside its range is undefined.  The
\* element read is then the marker Invalid, which is no element of any input,
\* and the range read is the empty range.
Invalid ==
    0 - (MaxPat + 1)

element_at(s, k) ==
    IF k \in 1..Len(s) THEN s[k] ELSE Invalid

range_at(s, k) ==
    IF k \in 1..Len(s) THEN s[k] ELSE <<>>

(***************************************************************************)
(* The view and its cache.                                                  *)
(***************************************************************************)
\* non_propagating_cache: an optional holding one inner range.  The other
\* fields are history: `from` is the outer position the held range was
\* dereferenced from, `filled` counts the emplace_deref calls per outer
\* position, `early` and `stale` record a get_inner that found the cache never
\* filled for its outer position, or last filled for another one.
EmptyCache ==
    [has |-> FALSE, val |-> <<>>, from |-> 0,
     filled |-> [x \in 1..(MaxOuter + 1) |-> 0], early |-> FALSE, stale |-> FALSE]

emplace_deref(v, x) ==
    [v EXCEPT !.inner_.has = TRUE, !.inner_.val = range_at(v.base_, x),
              !.inner_.from = x, !.inner_.filled[x] = @ + 1]

single_view(e) ==
    <<e>>

\* join_with_view(V base, Pattern pattern)
join_with_view(base, pattern) ==
    [base_ |-> base, pattern_ |-> pattern, inner_ |-> EmptyCache]

\* The constructor without its initialiser of pattern_.
join_with_view_single_no_pattern(r, e) ==
    [base_ |-> r, pattern_ |-> <<>>, inner_ |-> EmptyCache]

\* join_with_view(R && r, range_value_t<InnerRng> e)
join_with_view_single(r, e) ==
    [base_ |-> r, pattern_ |-> single_view(e), inner_ |-> EmptyCache]

begin_of(s) ==
    1

end_of(s) ==
    Len(s) + 1

(***************************************************************************)
(* The iterator: outer_it_ and the variant inner_it_, written as its index  *)
(* (0: pattern iterator, 1: inner iterator) and the position held.          *)
(***************************************************************************)
\* iterator() = default: every member value-initialised.
default_iterator ==
    [outer_it_ |-> 0, index |-> 0, pos |-> 0]

\* update_inner that returns *parent_->inner_ without emplace_deref.
update_inner_no_emplace(v, c, x) ==
    IF ref_is_glvalue(c)
    THEN [inner |-> range_at(v.base_, x), view |-> v]
    ELSE [inner |-> v.inner_.val, view |-> v]

\* update_inner that dereferences the outer iterator after x.
update_inner_next(v, c, x) ==
    IF ref_is_glvalue(c)
    THEN [inner |-> range_at(v.base_, x + 1), view |-> v]
    ELSE LET w == emplace_deref(v, x + 1) IN [inner |-> w.inner_.val, view |-> w]

\* update_inner that moves the inner range out of the base.
update_inner_moves(v, c, x) ==
    IF ref_is_glvalue(c)
    THEN [inner |-> range_at(v.base_, x), view |-> [v EXCEPT !.base_[x] = <<>>]]
    ELSE LET w == emplace_deref(v, x) IN
         [inner |-> w.inner_.val, view |-> [w EXCEPT !.base_[x] = <<>>]]

\* update_inner returns the inner range and the view, whose cache it fills.
update_inner(v, c, x) ==
    IF ref_is_glvalue(c)
    THEN [inner |-> range_at(v.base_, x), view |-> v]
    ELSE LET w == emplace_deref(v, x) IN [inner |-> w.inner_.val, view |-> w]

get_inner(v, c, x) ==
    IF ref_is_glvalue(c) THEN range_at(v.base_, x) ELSE v.inner_.val

\* The view after get_inner, with the history of that read.
read_inner(v, c, x) ==
    IF ref_is_glvalue(c)
    THEN v
    ELSE [v EXCEPT !.inner_.early = @ \/ v.inner_.filled[x] = 0,
                   !.inner_.stale = @ \/ v.inner_.from # x]

\* satisfy with no pattern after an empty inner range.
RECURSIVE satisfy_skip_after_empty(_, _, _)
satisfy_skip_after_empty(v, c, i) ==
    IF i.index = 0
    THEN IF i.pos # end_of(v.pattern_)
         THEN [it |-> i, view |-> v]
         ELSE LET u == update_inner(v, c, i.outer_it_) IN
              satisfy_skip_after_empty(u.view, c,
                  [i EXCEPT !.index = 1, !.pos = begin_of(u.inner)])
    ELSE LET inner == get_inner(v, c, i.outer_it_) IN
         IF i.pos # end_of(inner)
         THEN [it |-> i, view |-> v]
         ELSE IF i.outer_it_ + 1 = end_of(v.base_)
              THEN IF ref_is_glvalue(c)
                   THEN [it |-> [outer_it_ |-> i.outer_it_ + 1, index |-> 0, pos |-> 0],
                         view |-> v]
                   ELSE [it |-> [i EXCEPT !.outer_it_ = @ + 1], view |-> v]
              ELSE IF i.pos = begin_of(inner)
                   THEN LET u == update_inner(v, c, i.outer_it_ + 1) IN
                        satisfy_skip_after_empty(u.view, c,
                            [outer_it_ |-> i.outer_it_ + 1, index |-> 1,
                             pos |-> begin_of(u.inner)])
                   ELSE satisfy_skip_after_empty(v, c,
                            [outer_it_ |-> i.outer_it_ + 1, index |-> 0,
                             pos |-> begin_of(v.pattern_)])

\* satisfy that stops on a pattern iterator without comparing it to the end.
RECURSIVE satisfy_no_pattern_end(_, _, _)
satisfy_no_pattern_end(v, c, i) ==
    IF i.index = 0
    THEN [it |-> i, view |-> v]
    ELSE LET inner == get_inner(v, c, i.outer_it_) IN
         IF i.pos # end_of(inner)
         THEN [it |-> i, view |-> v]
         ELSE IF i.outer_it_ + 1 = end_of(v.base_)
              THEN IF ref_is_glvalue(c)
                   THEN [it |-> [outer_it_ |-> i.outer_it_ + 1, index |-> 0, pos |-> 0],
                         view |-> v]
                   ELSE [it |-> [i EXCEPT !.outer_it_ = @ + 1], view |-> v]
              ELSE satisfy_no_pattern_end(v, c,
                       [outer_it_ |-> i.outer_it_ + 1, index |-> 0,
                        pos |-> begin_of(v.pattern_)])

\* satisfy that enters the pattern after every inner range, the last included,
\* and ends after that pattern.
RECURSIVE satisfy_trailing_pattern(_, _, _)
satisfy_trailing_pattern(v, c, i) ==
    IF i.index = 0
    THEN IF i.pos # end_of(v.pattern_)
         THEN [it |-> i, view |-> v]
         ELSE IF i.outer_it_ = end_of(v.base_)
              THEN [it |-> [outer_it_ |-> i.outer_it_, index |-> 0, pos |-> 0], view |-> v]
              ELSE LET u == update_inner(v, c, i.outer_it_) IN
                   satisfy_trailing_pattern(u.view, c,
                       [i EXCEPT !.index = 1, !.pos = begin_of(u.inner)])
    ELSE LET inner == get_inner(v, c, i.outer_it_) IN
         IF i.pos # end_of(inner)
         THEN [it |-> i, view |-> v]
         ELSE satisfy_trailing_pattern(v, c,
                  [outer_it_ |-> i.outer_it_ + 1, index |-> 0,
                   pos |-> begin_of(v.pattern_)])

\* satisfy that calls update_inner where it should call get_inner.
RECURSIVE satisfy_rematerialize(_, _, _)
satisfy_rematerialize(v, c, i) ==
    IF i.index = 0
    THEN IF i.pos # end_of(v.pattern_)
         THEN [it |-> i, view |-> v]
         ELSE LET u == update_inner(v, c, i.outer_it_) IN
              satisfy_rematerialize(u.view, c,
                  [i EXCEPT !.index = 1, !.pos = begin_of(u.inner)])
    ELSE LET u == update_inner(v, c, i.outer_it_) IN
         IF i.pos # end_of(u.inner)
         THEN [it |-> i, view |-> u.view]
         ELSE IF i.outer_it_ + 1 = end_of(v.base_)
              THEN IF ref_is_glvalue(c)
                   THEN [it |-> [outer_it_ |-> i.outer_it_ + 1, index |-> 0, pos |-> 0],
                         view |-> u.view]
                   ELSE [it |-> [i EXCEPT !.outer_it_ = @ + 1], view |-> u.view]
              ELSE satisfy_rematerialize(u.view, c,
                       [outer_it_ |-> i.outer_it_ + 1, index |-> 0,
                        pos |-> begin_of(v.pattern_)])

\* satisfy without inner_it_.template emplace<0>() at the end of the base.
RECURSIVE satisfy_no_collapse(_, _, _)
satisfy_no_collapse(v, c, i) ==
    IF i.index = 0
    THEN IF i.pos # end_of(v.pattern_)
         THEN [it |-> i, view |-> v]
         ELSE LET u == update_inner(v, c, i.outer_it_) IN
              satisfy_no_collapse(u.view, c,
                  [i EXCEPT !.index = 1, !.pos = begin_of(u.inner)])
    ELSE LET inner == get_inner(v, c, i.outer_it_)
             w == read_inner(v, c, i.outer_it_) IN
         IF i.pos # end_of(inner)
         THEN [it |-> i, view |-> w]
         ELSE IF i.outer_it_ + 1 = end_of(v.base_)
              THEN [it |-> [i EXCEPT !.outer_it_ = @ + 1], view |-> w]
              ELSE satisfy_no_collapse(w, c,
                       [outer_it_ |-> i.outer_it_ + 1, index |-> 0,
                        pos |-> begin_of(v.pattern_)])

\* satisfy that emplaces begin(pattern_) at the end of the base as well.
RECURSIVE satisfy_end_at_pattern_begin(_, _, _)
satisfy_end_at_pattern_begin(v, c, i) ==
    IF i.index = 0
    THEN IF i.pos # end_of(v.pattern_)
         THEN [it |-> i, view |-> v]
         ELSE LET u == update_inner(v, c, i.outer_it_) IN
              satisfy_end_at_pattern_begin(u.view, c,
                  [i EXCEPT !.index = 1, !.pos = begin_of(u.inner)])
    ELSE LET inner == get_inner(v, c, i.outer_it_)
             w == read_inner(v, c, i.outer_it_) IN
         IF i.pos # end_of(inner)
         THEN [it |-> i, view |-> w]
         ELSE IF i.outer_it_ + 1 = end_of(v.base_)
              THEN IF ref_is_glvalue(c)
                   THEN [it |-> [outer_it_ |-> i.outer_it_ + 1, index |-> 0,
                                 pos |-> begin_of(v.pattern_)],
                         view |-> w]
                   ELSE [it |-> [i EXCEPT !.outer_it_ = @ + 1], view |-> w]
              ELSE satisfy_end_at_pattern_begin(w, c,
                       [outer_it_ |-> i.outer_it_ + 1, index |-> 0,
                        pos |-> begin_of(v.pattern_)])

RECURSIVE satisfy(_, _, _)
satisfy(v, c, i) ==
    IF i.index = 0
    THEN IF i.pos # end_of(v.pattern_)
         THEN [it |-> i, view |-> v]
         ELSE LET u == update_inner(v, c, i.outer_it_) IN
              satisfy(u.view, c, [i EXCEPT !.index = 1, !.pos = begin_of(u.inner)])
    ELSE LET inner == get_inner(v, c, i.outer_it_)
             w == read_inner(v, c, i.outer_it_) IN
         IF i.pos # end_of(inner)
         THEN [it |-> i, view |-> w]
         ELSE IF i.outer_it_ + 1 = end_of(v.base_)
              THEN IF ref_is_glvalue(c)
                   THEN [it |-> [outer_it_ |-> i.outer_it_ + 1, index |-> 0, pos |-> 0],
                         view |-> w]
                   ELSE [it |-> [i EXCEPT !.outer_it_ = @ + 1], view |-> w]
              ELSE satisfy(w, c, [outer_it_ |-> i.outer_it_ + 1, index |-> 0,
                                  pos |-> begin_of(v.pattern_)])

\* The constructor that emplaces begin(pattern_) and not begin(inner).
iterator_starts_in_pattern(v, c, outer) ==
    IF outer # end_of(v.base_)
    THEN satisfy(v, c, [outer_it_ |-> outer, index |-> 0, pos |-> begin_of(v.pattern_)])
    ELSE [it |-> [default_iterator EXCEPT !.outer_it_ = outer], view |-> v]

\* The constructor without outer_it_(std::move(outer)) for the end position.
iterator_without_outer(v, c, outer) ==
    IF outer # end_of(v.base_)
    THEN LET u == update_inner(v, c, outer) IN
         satisfy(u.view, c, [outer_it_ |-> outer, index |-> 1, pos |-> begin_of(u.inner)])
    ELSE [it |-> default_iterator, view |-> v]

\* iterator(Parent & parent, iterator_t<Base> outer)
iterator(v, c, outer) ==
    IF outer # end_of(v.base_)
    THEN LET u == update_inner(v, c, outer) IN
         satisfy(u.view, c, [outer_it_ |-> outer, index |-> 1, pos |-> begin_of(u.inner)])
    ELSE [it |-> [default_iterator EXCEPT !.outer_it_ = outer], view |-> v]

\* operator* that reads *begin(pattern_) whatever the pattern iterator holds.
deref_pattern_begin(v, c, i) ==
    IF i.index = 0
    THEN element_at(v.pattern_, begin_of(v.pattern_))
    ELSE IF ref_is_glvalue(c)
         THEN element_at(range_at(v.base_, i.outer_it_), i.pos)
         ELSE element_at(v.inner_.val, i.pos)

\* operator*
deref(v, c, i) ==
    IF i.index = 0
    THEN element_at(v.pattern_, i.pos)
    ELSE IF ref_is_glvalue(c)
         THEN element_at(range_at(v.base_, i.outer_it_), i.pos)
         ELSE element_at(v.inner_.val, i.pos)

\* operator++ without satisfy().
increment_no_satisfy(v, c, i) ==
    [it |-> [i EXCEPT !.pos = @ + 1], view |-> v]

\* operator++
increment(v, c, i) ==
    satisfy(v, c, [i EXCEPT !.pos = @ + 1])

\* The loop of operator-- with --outer_it_ on entering the pattern and not on
\* leaving it: the pattern is held with the outer position before it.
RECURSIVE skip_back_pattern_of_previous(_, _)
skip_back_pattern_of_previous(v, i) ==
    IF i.index = 0
    THEN IF i.pos = begin_of(v.pattern_)
         THEN skip_back_pattern_of_previous(v, [i EXCEPT !.index = 1,
                  !.pos = end_of(range_at(v.base_, i.outer_it_))])
         ELSE i
    ELSE IF i.pos = begin_of(range_at(v.base_, i.outer_it_))
         THEN IF i.outer_it_ <= begin_of(v.base_)
              THEN i
              ELSE skip_back_pattern_of_previous(v, [outer_it_ |-> i.outer_it_ - 1,
                       index |-> 0, pos |-> end_of(v.pattern_)])
         ELSE i

\* The loop of operator-- that goes from the begin of an inner range straight
\* to the end of the inner range before it, without the pattern.
RECURSIVE skip_back_no_pattern(_, _)
skip_back_no_pattern(v, i) ==
    IF i.index = 0
    THEN IF i.pos = begin_of(v.pattern_)
         THEN IF i.outer_it_ <= begin_of(v.base_)
              THEN i
              ELSE skip_back_no_pattern(v, [outer_it_ |-> i.outer_it_ - 1, index |-> 1,
                       pos |-> end_of(range_at(v.base_, i.outer_it_ - 1))])
         ELSE i
    ELSE IF i.pos = begin_of(range_at(v.base_, i.outer_it_))
         THEN IF i.outer_it_ <= begin_of(v.base_)
              THEN i
              ELSE skip_back_no_pattern(v, [outer_it_ |-> i.outer_it_ - 1, index |-> 1,
                       pos |-> end_of(range_at(v.base_, i.outer_it_ - 1))])
         ELSE i

\* The loop of operator--: skips over empty ranges when going backwards.
\* --outer_it_ at begin(base_) is undefined: the loop is left there.
RECURSIVE skip_back(_, _)
skip_back(v, i) ==
    IF i.index = 0
    THEN IF i.pos = begin_of(v.pattern_)
         THEN IF i.outer_it_ <= begin_of(v.base_)
              THEN i
              ELSE skip_back(v, [outer_it_ |-> i.outer_it_ - 1, index |-> 1,
                                 pos |-> end_of(range_at(v.base_, i.outer_it_ - 1))])
         ELSE i
    ELSE IF i.pos = begin_of(range_at(v.base_, i.outer_it_))
         THEN skip_back(v, [i EXCEPT !.index = 0, !.pos = end_of(v.pattern_)])
         ELSE i

\* operator-- without its first if: nothing is done for outer_it_ at the end.
decrement_no_end_step(v, i) ==
    LET k == skip_back(v, i) IN [k EXCEPT !.pos = @ - 1]

\* operator--
decrement(v, i) ==
    LET j == IF i.outer_it_ = end_of(v.base_)
             THEN [outer_it_ |-> i.outer_it_ - 1, index |-> 1,
                   pos |-> end_of(range_at(v.base_, i.outer_it_ - 1))]
             ELSE i
        k == skip_back(v, j)
    IN  [k EXCEPT !.pos = @ - 1]

\* operator== that compares the positions held and not which alternative of
\* the variant holds them.
iterator_eq_no_index(x, y) ==
    x.outer_it_ = y.outer_it_ /\ x.pos = y.pos

\* operator==(iterator, iterator): the outer iterators and the variants.
iterator_eq(x, y) ==
    x.outer_it_ = y.outer_it_ /\ (x.index = y.index /\ x.pos = y.pos)

\* sentinel(Parent & parent)
sentinel(v) ==
    [end_ |-> end_of(v.base_)]

\* operator== that also asks for the pattern alternative of the variant.
sentinel_eq_pattern_phase(x, y) ==
    x.outer_it_ = y.end_ /\ x.index = 0

\* operator==(iterator, sentinel)
sentinel_eq(x, y) ==
    x.outer_it_ = y.end_

\* begin()
view_begin(v, c) ==
    iterator(v, c, begin_of(v.base_))

\* end(): [iter |-> TRUE, it |-> ...] or [iter |-> FALSE, s |-> ...]
view_end(v, c) ==
    IF end_is_iterator(c)
    THEN [iter |-> TRUE, it |-> iterator(v, c, end_of(v.base_)).it, s |-> sentinel(v)]
    ELSE [iter |-> FALSE, it |-> default_iterator, s |-> sentinel(v)]

\* it == end(), with whichever operator== the type of end() selects.
at_end(v, c, i) ==
    LET e == view_end(v, c) IN
    IF e.iter THEN iterator_eq(i, e.it) ELSE sentinel_eq(i, e.s)

(***************************************************************************)
(* The traversal: a consumer that reads the view forwards with one          *)
(* iterator and then, when the iterator offers operator--, backwards.       *)
(***************************************************************************)
Cursors ==
    {1, 2}

\* The view types traversed: an outer range of prvalue inner ranges; a
\* forward-only common outer range of lvalues; bidirectional common ranges;
\* bidirectional ranges whose outer range is not common.
ValueCfg ==
    [glvalue |-> FALSE, outerCat |-> "bidirectional", innerCat |-> "bidirectional",
     patCat |-> "bidirectional", outerCommon |-> TRUE, innerCommon |-> TRUE,
     patCommon |-> TRUE, lvalueRef |-> FALSE]

ForwardCfg ==
    [glvalue |-> TRUE, outerCat |-> "forward", innerCat |-> "forward",
     patCat |-> "bidirectional", outerCommon |-> TRUE, innerCommon |-> TRUE,
     patCommon |-> TRUE, lvalueRef |-> TRUE]

BidirCfg ==
    [glvalue |-> TRUE, outerCat |-> "bidirectional", innerCat |-> "bidirectional",
     patCat |-> "bidirectional", outerCommon |-> TRUE, innerCommon |-> TRUE,
     patCommon |-> TRUE, lvalueRef |-> TRUE]

BidirSentinelCfg ==
    [BidirCfg EXCEPT !.outerCommon = FALSE]

TravCfgs ==
    {ValueCfg, ForwardCfg, BidirCfg, BidirSentinelCfg}

\* std::ranges::single_view is a common random-access range.
SingleCfgs ==
    {c \in TravCfgs : c.patCat = "bidirectional" /\ c.patCommon}

NoCmp ==
    [valid |-> FALSE, eq |-> FALSE]

NoCap ==
    [concept |-> "none", category |-> "none", decrement |-> FALSE, end |-> "none"]

InitRest ==
    /\ it = [c \in Cursors |-> default_iterator]
    /\ out = <<>>
    /\ rout = <<>>
    /\ pc = "start"
    /\ cmp = NoCmp
    /\ cap = NoCap
    /\ owner = 0

Init ==
    /\ \E scheme \in Schemes, shape \in Shapes :
          \/ /\ \E n \in 0..MaxPat :
                   /\ ctor = [form |-> "range", base |-> MakeOuter(scheme, shape),
                              pattern |-> MakePattern(scheme, n)]
                   /\ view = join_with_view(ctor.base, ctor.pattern)
             /\ cfg \in TravCfgs
          \/ /\ ctor = [form |-> "single", base |-> MakeOuter(scheme, shape),
                        pattern |-> PatElem(scheme, 1)]
             /\ view = join_with_view_single(ctor.base, ctor.pattern)
             /\ cfg \in SingleCfgs
    /\ InitRest

Begin ==
    /\ pc = "start"
    /\ LET r == view_begin(view, cfg) IN
          /\ it' = [it EXCEPT ![1] = r.it]
          /\ view' = r.view
    /\ pc' = "fwd"
    /\ UNCHANGED <<cfg, ctor, out, rout, cmp, cap, owner>>

Deref ==
    /\ pc = "fwd"
    /\ ~at_end(view, cfg, it[1])
    /\ out' = Append(out, deref(view, cfg, it[1]))
    /\ pc' = "adv"
    /\ UNCHANGED <<view, cfg, ctor, it, rout, cmp, cap, owner>>

Advance ==
    /\ pc = "adv"
    /\ LET r == increment(view, cfg, it[1]) IN
          /\ it' = [it EXCEPT ![1] = r.it]
          /\ view' = r.view
    /\ pc' = "fwd"
    /\ UNCHANGED <<cfg, ctor, out, rout, cmp, cap, owner>>

FwdDone ==
    /\ pc = "fwd"
    /\ at_end(view, cfg, it[1])
    /\ pc' = "fwddone"
    /\ UNCHANGED <<view, cfg, ctor, it, out, rout, cmp, cap, owner>>

\* Backwards from the iterator that has reached the end.
BackFromHere ==
    /\ pc = "fwddone"
    /\ has_decrement(cfg)
    /\ pc' = "bwd"
    /\ UNCHANGED <<view, cfg, ctor, it, out, rout, cmp, cap, owner>>

\* Backwards from end(), when end() is an iterator.
BackFromEnd ==
    /\ pc = "fwddone"
    /\ has_decrement(cfg)
    /\ end_is_iterator(cfg)
    /\ it' = [it EXCEPT ![1] = view_end(view, cfg).it]
    /\ pc' = "bwd"
    /\ UNCHANGED <<view, cfg, ctor, out, rout, cmp, cap, owner>>

Retreat ==
    /\ pc = "bwd"
    /\ ~iterator_eq(it[1], view_begin(view, cfg).it)
    /\ it' = [it EXCEPT ![1] = decrement(view, it[1])]
    /\ pc' = "bderef"
    /\ UNCHANGED <<view, cfg, ctor, out, rout, cmp, cap, owner>>

DerefBack ==
    /\ pc = "bderef"
    /\ rout' = Append(rout, deref(view, cfg, it[1]))
    /\ pc' = "bwd"
    /\ UNCHANGED <<view, cfg, ctor, it, out, cmp, cap, owner>>

BwdDone ==
    /\ pc = "bwd"
    /\ iterator_eq(it[1], view_begin(view, cfg).it)
    /\ pc' = "done"
    /\ UNCHANGED <<view, cfg, ctor, it, out, rout, cmp, cap, owner>>

Next ==
    \/ Begin
    \/ Deref
    \/ Advance
    \/ FwdDone
    \/ BackFromHere
    \/ BackFromEnd
    \/ Retreat
    \/ DerefBack
    \/ BwdDone

Spec ==
    Init /\ [][Next]_vars

\* The consumer is one sequential loop: a step it can take, it takes.
SpecLive ==
    Spec /\ WF_vars(Next)

(***************************************************************************)
(* Two iterators of one view whose inner ranges are lvalues, stepped in     *)
(* any order and compared with operator==.                                  *)
(***************************************************************************)
Live(c) ==
    it[c] # default_iterator

InitPair ==
    /\ \E shape \in Shapes, n \in 0..MaxPat :
          /\ ctor = [form |-> "range", base |-> MakeOuter("distinct", shape),
                     pattern |-> MakePattern("distinct", n)]
          /\ view = join_with_view(ctor.base, ctor.pattern)
    /\ cfg \in {ForwardCfg, BidirCfg}
    /\ it = [c \in Cursors |-> default_iterator]
    /\ out = <<>>
    /\ rout = <<>>
    /\ pc = "pair"
    /\ cmp = NoCmp
    /\ cap = NoCap
    /\ owner = 0

PairBegin(c) ==
    /\ pc = "pair"
    /\ ~Live(c)
    /\ LET r == view_begin(view, cfg) IN
          /\ it' = [it EXCEPT ![c] = r.it]
          /\ view' = r.view
    /\ cmp' = NoCmp
    /\ UNCHANGED <<cfg, ctor, out, rout, pc, cap, owner>>

PairEnd(c) ==
    /\ pc = "pair"
    /\ ~Live(c)
    /\ end_is_iterator(cfg)
    /\ it' = [it EXCEPT ![c] = view_end(view, cfg).it]
    /\ cmp' = NoCmp
    /\ UNCHANGED <<view, cfg, ctor, out, rout, pc, cap, owner>>

PairAdvance(c) ==
    /\ pc = "pair"
    /\ Live(c)
    /\ ~at_end(view, cfg, it[c])
    /\ LET r == increment(view, cfg, it[c]) IN
          /\ it' = [it EXCEPT ![c] = r.it]
          /\ view' = r.view
    /\ cmp' = NoCmp
    /\ UNCHANGED <<cfg, ctor, out, rout, pc, cap, owner>>

PairRetreat(c) ==
    /\ pc = "pair"
    /\ has_decrement(cfg)
    /\ Live(c)
    /\ ~iterator_eq(it[c], view_begin(view, cfg).it)
    /\ it' = [it EXCEPT ![c] = decrement(view, it[c])]
    /\ cmp' = NoCmp
    /\ UNCHANGED <<view, cfg, ctor, out, rout, pc, cap, owner>>

PairCompare ==
    /\ pc = "pair"
    /\ Live(1) /\ Live(2)
    /\ cmp' = [valid |-> TRUE, eq |-> iterator_eq(it[1], it[2])]
    /\ UNCHANGED <<view, cfg, ctor, it, out, rout, pc, cap, owner>>

NextPair ==
    \/ \E c \in Cursors : PairBegin(c)
    \/ \E c \in Cursors : PairEnd(c)
    \/ \E c \in Cursors : PairAdvance(c)
    \/ \E c \in Cursors : PairRetreat(c)
    \/ PairCompare

SpecPair ==
    InitPair /\ [][NextPair]_vars

(***************************************************************************)
(* Two iterators of one view whose inner ranges are prvalues: both work on  *)
(* the one cache inner_ of the view.  `owner` is history: the iterator      *)
(* whose operation filled the cache last.  An inner iterator of the other   *)
(* iterator then refers to the value the cache held before: using it is     *)
(* undefined, and pc = "undefined" stands for every behaviour after that.   *)
(***************************************************************************)
InitShared ==
    /\ \E shape \in Shapes, n \in 0..MaxPat :
          /\ ctor = [form |-> "range", base |-> MakeOuter("distinct", shape),
                     pattern |-> MakePattern("distinct", n)]
          /\ view = join_with_view(ctor.base, ctor.pattern)
    /\ cfg = ValueCfg
    /\ it = [c \in Cursors |-> default_iterator]
    /\ out = <<>>
    /\ rout = <<>>
    /\ pc = "shared"
    /\ cmp = NoCmp
    /\ cap = NoCap
    /\ owner = 0

\* The iterator whose operation led to `after` fills the cache or leaves it.
owner_after(c, after) ==
    IF after.inner_.filled # view.inner_.filled THEN c ELSE owner

\* The inner iterator held refers to the value the cache holds now.
Owns(c) ==
    it[c].index = 0 \/ owner = c

SharedBegin(c) ==
    /\ pc = "shared"
    /\ ~Live(c)
    /\ LET r == view_begin(view, cfg) IN
          /\ it' = [it EXCEPT ![c] = r.it]
          /\ view' = r.view
          /\ owner' = owner_after(c, r.view)
    /\ UNCHANGED <<cfg, ctor, out, rout, pc, cmp, cap>>

SharedAdvance(c) ==
    /\ pc = "shared"
    /\ Live(c)
    /\ ~at_end(view, cfg, it[c])
    /\ Owns(c)
    /\ LET r == increment(view, cfg, it[c]) IN
          /\ it' = [it EXCEPT ![c] = r.it]
          /\ view' = r.view
          /\ owner' = owner_after(c, r.view)
    /\ UNCHANGED <<cfg, ctor, out, rout, pc, cmp, cap>>

\* operator++ on an inner iterator into the value the cache held before.
\* Where the cache was filled again from the same outer position, the
\* iterator may have outlived the old value (a borrowed inner range).
SharedAdvanceDangling(c) ==
    /\ pc = "shared"
    /\ Live(c)
    /\ ~at_end(view, cfg, it[c])
    /\ ~Owns(c)
    /\ \/ /\ view.inner_.from = it[c].outer_it_
          /\ LET r == increment(view, cfg, it[c]) IN
                /\ it' = [it EXCEPT ![c] = r.it]
                /\ view' = r.view
                /\ owner' = owner_after(c, r.view)
          /\ UNCHANGED <<cfg, ctor, out, rout, pc, cmp, cap>>
       \/ /\ pc' = "undefined"
          /\ UNCHANGED <<view, cfg, ctor, it, out, rout, cmp, cap, owner>>

NextShared ==
    \/ \E c \in Cursors : SharedBegin(c)
    \/ \E c \in Cursors : SharedAdvance(c)
    \/ \E c \in Cursors : SharedAdvanceDangling(c)

SpecShared ==
    InitShared /\ [][NextShared]_vars

(***************************************************************************)
(* One iterator, obtained from begin() or from end(), stepped forwards and  *)
(* backwards in any order: never incremented at the end, never decremented  *)
(* at begin().  pc tells the operation done last.                           *)
(***************************************************************************)
WalkPcs ==
    {"begun", "ended", "advanced", "retreated"}

InitWalk ==
    /\ \E shape \in Shapes, n \in 0..MaxPat :
          /\ ctor = [form |-> "range", base |-> MakeOuter("distinct", shape),
                     pattern |-> MakePattern("distinct", n)]
          /\ view = join_with_view(ctor.base, ctor.pattern)
    /\ cfg \in TravCfgs
    /\ it = [c \in Cursors |-> default_iterator]
    /\ out = <<>>
    /\ rout = <<>>
    /\ pc = "walk"
    /\ cmp = NoCmp
    /\ cap = NoCap
    /\ owner = 0

WalkBegin ==
    /\ pc = "walk"
    /\ LET r == view_begin(view, cfg) IN
          /\ it' = [it EXCEPT ![1] = r.it]
          /\ view' = r.view
    /\ pc' = "begun"
    /\ UNCHANGED <<cfg, ctor, out, rout, cmp, cap, owner>>

WalkEnd ==
    /\ pc = "walk"
    /\ end_is_iterator(cfg)
    /\ it' = [it EXCEPT ![1] = view_end(view, cfg).it]
    /\ pc' = "ended"
    /\ UNCHANGED <<view, cfg, ctor, out, rout, cmp, cap, owner>>

WalkAdvance ==
    /\ pc \in WalkPcs
    /\ ~at_end(view, cfg, it[1])
    /\ LET r == increment(view, cfg, it[1]) IN
          /\ it' = [it EXCEPT ![1] = r.it]
          /\ view' = r.view
    /\ pc' = "advanced"
    /\ UNCHANGED <<cfg, ctor, out, rout, cmp, cap, owner>>

WalkRetreat ==
    /\ pc \in WalkPcs
    /\ has_decrement(cfg)
    /\ ~iterator_eq(it[1], view_begin(view, cfg).it)
    /\ it' = [it EXCEPT ![1] = decrement(view, it[1])]
    /\ pc' = "retreated"
    /\ UNCHANGED <<view, cfg, ctor, out, rout, cmp, cap, owner>>

NextWalk ==
    \/ WalkBegin
    \/ WalkEnd
    \/ WalkAdvance
    \/ WalkRetreat

SpecWalk ==
    InitWalk /\ [][NextWalk]_vars

(***************************************************************************)
(* The member types and operators a view type offers, for every             *)
(* configuration of its template arguments.                                 *)
(***************************************************************************)
InitCap ==
    /\ cfg \in AllCfgs
    /\ ctor = [form |-> "range", base |-> <<>>, pattern |-> <<>>]
    /\ view = join_with_view(ctor.base, ctor.pattern)
    /\ InitRest

Resolve ==
    /\ pc = "start"
    /\ cap' = [concept |-> iterator_concept(cfg), category |-> iterator_category(cfg),
               decrement |-> has_decrement(cfg),
               end |-> IF end_is_iterator(cfg) THEN "iterator" ELSE "sentinel"]
    /\ pc' = "resolved"
    /\ UNCHANGED <<view, cfg, ctor, it, out, rout, cmp, owner>>

NextCap ==
    Resolve

SpecCap ==
    InitCap /\ [][NextCap]_vars

(***************************************************************************)
(* Properties.                                                              *)
(***************************************************************************)
\* concatenate(O[0], P, O[1], P, ..., P, O[n-1])
RECURSIVE Concatenation(_, _)
Concatenation(O, P) ==
    IF O = <<>> THEN <<>>
    ELSE IF Len(O) = 1 THEN O[1]
    ELSE O[1] \o P \o Concatenation(Tail(O), P)

\* O[0] O[1] ... O[n-1]
RECURSIVE PlainConcatenation(_)
PlainConcatenation(O) ==
    IF O = <<>> THEN <<>> ELSE O[1] \o PlainConcatenation(Tail(O))

IsPrefix(s, t) ==
    Len(s) <= Len(t) /\ SubSeq(t, 1, Len(s)) = s

Reverse(s) ==
    [k \in 1..Len(s) |-> s[Len(s) + 1 - k]]

\* The forward traversal has run from begin() until the iterator equalled end().
Traversed ==
    pc \in {"fwddone", "bwd", "bderef", "done"}

\* C1: the elements read from begin() by dereference-then-advance until the
\* iterator equals end() are exactly O[0] P O[1] P ... P O[n-1]: what has been
\* read so far is always a prefix of it, the iterator equals end() exactly
\* when all of it has been read, and one full pattern stands between every two
\* consecutive inner ranges, empty ones included.
C1_Flattened ==
    LET e == Concatenation(view.base_, view.pattern_) IN
       /\ IsPrefix(out, e)
       /\ pc = "fwd" => (at_end(view, cfg, it[1]) <=> out = e)
       /\ Traversed => out = e

\* O = [[1,2],[],[3]], P = [9,9] has been read as [1,2,9,9,9,9,3].
C1_Witness ==
    /\ pc = "fwddone"
    /\ Len(view.base_) = 3
    /\ Len(view.base_[1]) = 2 /\ view.base_[2] = <<>> /\ Len(view.base_[3]) = 1
    /\ Len(view.pattern_) = 2
    /\ view.pattern_[1] # view.pattern_[2]
    /\ out = view.base_[1] \o view.pattern_ \o view.pattern_ \o view.base_[3]

\* C2: with an empty pattern the forward traversal reads the plain
\* concatenation of the inner ranges, and no iterator made by construction or
\* by an advance holds a pattern iterator unless it is at the end.
C2_EmptyPattern ==
    view.pattern_ = <<>> =>
       /\ pc # "start" => ~(it[1].index = 0 /\ it[1].outer_it_ # end_of(view.base_))
       /\ IsPrefix(out, PlainConcatenation(view.base_))
       /\ Traversed => out = PlainConcatenation(view.base_)

C2_Witness ==
    /\ pc = "fwddone"
    /\ view.pattern_ = <<>>
    /\ Len(view.base_) = 3
    /\ view.base_[1] # <<>> /\ view.base_[2] = <<>> /\ view.base_[3] # <<>>
    /\ out = view.base_[1] \o view.base_[3]

\* C3: over an empty outer range begin() equals end() right after
\* construction, for any pattern, and nothing is read or advanced.
C3_EmptyOuter ==
    (view.base_ = <<>> /\ pc # "start") =>
       /\ at_end(view, cfg, it[1])
       /\ out = <<>>
       /\ pc # "adv"

C3_Witness ==
    /\ pc = "fwddone"
    /\ view.base_ = <<>>
    /\ view.pattern_ # <<>>
    /\ ~end_is_iterator(cfg)
    /\ sentinel_eq(it[1], sentinel(view))
    /\ out = <<>>

\* C4: over an outer range of exactly one inner range the forward traversal
\* reads that inner range and no element of the pattern; when the inner range
\* is empty begin() equals end().
C4_SingleOuter ==
    Len(view.base_) = 1 =>
       /\ IsPrefix(out, view.base_[1])
       /\ Traversed => out = view.base_[1]
       /\ (view.base_[1] = <<>> /\ pc # "start") => at_end(view, cfg, it[1])

C4_Witness ==
    /\ pc = "fwddone"
    /\ Len(view.base_) = 1
    /\ Len(view.base_[1]) = 2
    /\ Len(view.pattern_) = 2
    /\ out = view.base_[1]

\* p stands in s at position k.
OccursAt(s, p, k) ==
    /\ k >= 1
    /\ k + Len(p) - 1 <= Len(s)
    /\ \A j \in 1..Len(p) : s[k + j - 1] = p[j]

Contains(s, p) ==
    \E k \in 1..(Len(s) + 1) : OccursAt(s, p, k)

\* A proper prefix of p is also a suffix of p.
OverlapsItself(p) ==
    \E b \in 1..(Len(p) - 1) : SubSeq(p, 1, b) = SubSeq(p, Len(p) - b + 1, Len(p))

\* Splitting s on the non-empty p, leftmost occurrences first; the empty
\* sequence splits into no part.
RECURSIVE SplitFrom(_, _, _, _)
SplitFrom(s, p, k, start) ==
    IF k + Len(p) - 1 > Len(s)
    THEN <<SubSeq(s, start, Len(s))>>
    ELSE IF OccursAt(s, p, k)
         THEN <<SubSeq(s, start, k - 1)>> \o SplitFrom(s, p, k + Len(p), k + Len(p))
         ELSE SplitFrom(s, p, k + 1, start)

Split(s, p) ==
    IF s = <<>> THEN <<>> ELSE SplitFrom(s, p, 1, 1)

\* Neither an inner range nor, beside itself, the pattern contains the pattern.
Separable(O, P) ==
    /\ P # <<>>
    /\ \A i \in 1..Len(O) : ~Contains(O[i], P)
    /\ ~OverlapsItself(P)

\* C5 as claimed: whenever neither an inner range nor the pattern itself
\* contains the pattern, splitting what the forward traversal read on the
\* pattern gives back the outer range, empty inner ranges and the empty outer
\* range included.
C5_RoundTripAsClaimed ==
    (pc = "fwddone" /\ Separable(view.base_, view.pattern_)) =>
        Split(out, view.pattern_) = view.base_

\* C5, amended: the same, for every outer range but the one that consists of
\* a single empty inner range (it reads as the empty sequence, like the empty
\* outer range).
C5_RoundTrip ==
    (pc = "fwddone" /\ Separable(view.base_, view.pattern_) /\ view.base_ # << <<>> >>) =>
        Split(out, view.pattern_) = view.base_

C5_Witness ==
    /\ pc = "fwddone"
    /\ Separable(view.base_, view.pattern_)
    /\ Len(view.pattern_) = 2
    /\ Len(view.base_) = 3
    /\ view.base_[1] = <<>> /\ view.base_[2] # <<>> /\ view.base_[3] = <<>>
    /\ Len(out) = 4 + Len(view.base_[2])
    /\ Split(out, view.pattern_) = view.base_

\* C6: when the iterator offers operator--, retreat-then-dereference from the
\* end until the iterator equals begin() reads the reverse of what the forward
\* traversal read: what has been read backwards so far is always a prefix of
\* that reverse, and the iterator equals begin() exactly when all of it has
\* been read.
C6_Backward ==
    /\ pc \in {"bwd", "bderef", "done"} => IsPrefix(rout, Reverse(out))
    /\ pc = "bwd" =>
          (iterator_eq(it[1], view_begin(view, cfg).it) <=> rout = Reverse(out))
    /\ pc = "done" => rout = Reverse(out)

\* Empty inner ranges at the front and the back: O = [[],[x],[]], P = [p, q].
C6_Witness ==
    /\ pc = "done"
    /\ end_is_iterator(cfg)
    /\ Len(view.base_) = 3
    /\ view.base_[1] = <<>> /\ Len(view.base_[2]) = 1 /\ view.base_[3] = <<>>
    /\ Len(view.pattern_) = 2
    /\ view.pattern_[1] # view.pattern_[2]
    /\ rout = Reverse(view.pattern_) \o view.base_[2] \o Reverse(view.pattern_)

\* C7: a sentinel equals an iterator iff the iterator's outer_it_ is the end
\* of the outer range the sentinel holds, whichever alternative the variant
\* holds; in a forward traversal it is unequal to an iterator that is read and
\* equal exactly when everything has been read.
C7_Sentinel ==
    pc # "start" =>
       LET eq == sentinel_eq(it[1], sentinel(view)) IN
          /\ eq <=> it[1].outer_it_ = end_of(view.base_)
          /\ pc = "adv" => ~eq
          /\ pc = "fwd" => (eq <=> out = Concatenation(view.base_, view.pattern_))

\* The end reached with the variant holding an inner iterator.
C7_Witness ==
    /\ pc = "fwddone"
    /\ ~end_is_iterator(cfg)
    /\ it[1].index = 1
    /\ sentinel_eq(it[1], sentinel(view))
    /\ Len(view.base_) >= 2
    /\ Len(out) >= 3

\* C8: two iterators of a view whose inner ranges are lvalues are equal iff
\* their outer iterators are equal and their variants hold the same
\* alternative at the same position; at one outer position a pattern iterator
\* and an inner iterator are never equal.
C8_IteratorEquality ==
    cmp.valid =>
       /\ cmp.eq <=> /\ it[1].outer_it_ = it[2].outer_it_
                     /\ it[1].index = it[2].index
                     /\ it[1].pos = it[2].pos
       /\ (it[1].outer_it_ = it[2].outer_it_ /\ it[1].index # it[2].index) => ~cmp.eq

\* Compared: the begin of a pattern and the begin of the inner range after it.
C8_Witness ==
    /\ cmp.valid
    /\ ~cmp.eq
    /\ it[1].outer_it_ = it[2].outer_it_
    /\ it[1].index = 0 /\ it[2].index = 1
    /\ it[1].pos = it[2].pos
    /\ it[1].outer_it_ # end_of(view.base_)

\* The elements of a view: dereference-then-advance from begin() to end().
RECURSIVE Drain(_, _, _)
Drain(v, c, i) ==
    IF at_end(v, c, i) THEN <<>>
    ELSE <<deref(v, c, i)>> \o LET r == increment(v, c, i) IN Drain(r.view, c, r.it)

Elements(v, c) ==
    LET b == view_begin(v, c) IN Drain(b.view, c, b.it)

\* C9: the view constructed from an outer range and one element e reads the
\* same elements as the view constructed from that outer range and the
\* pattern [e].
C9_SingleElement ==
    (Traversed /\ ctor.form = "single") =>
        out = Elements(join_with_view(ctor.base, <<ctor.pattern>>), cfg)

C9_Witness ==
    /\ pc = "fwddone"
    /\ ctor.form = "single"
    /\ Len(ctor.base) = 3
    /\ ctor.base[1] # <<>> /\ ctor.base[2] = <<>> /\ ctor.base[3] # <<>>
    /\ out = ctor.base[1] \o <<ctor.pattern, ctor.pattern>> \o ctor.base[3]

\* The capability as the claim words it.
ClaimedCapability(c) ==
    IF ~c.glvalue THEN "input"
    ELSE IF /\ c.outerCat = "bidirectional" /\ c.innerCat = "bidirectional"
            /\ c.patCat = "bidirectional"
            /\ c.innerCommon /\ c.patCommon
         THEN "bidirectional"
    ELSE IF /\ c.outerCat \in ForwardCats /\ c.innerCat \in ForwardCats
            /\ c.patCat \in ForwardCats
         THEN "forward"
    ELSE "input"

\* C10: iterator_concept is input when the inner ranges are prvalues,
\* otherwise bidirectional when outer range, inner range and pattern are
\* bidirectional and inner range and pattern are common, otherwise forward
\* when the three are forward, otherwise input; operator-- is offered exactly
\* when it is bidirectional; and the other flags of the configuration do not
\* change it.
C10_Capability ==
    pc = "resolved" =>
       /\ cap.concept = ClaimedCapability(cfg)
       /\ cap.decrement <=> cap.concept = "bidirectional"
       /\ \A d \in AllCfgs :
             (/\ d.glvalue = cfg.glvalue /\ d.outerCat = cfg.outerCat
              /\ d.innerCat = cfg.innerCat /\ d.patCat = cfg.patCat
              /\ d.innerCommon = cfg.innerCommon /\ d.patCommon = cfg.patCommon)
                => iterator_concept(d) = cap.concept

\* All three bidirectional, the pattern not common: forward, no operator--.
C10_Witness ==
    /\ pc = "resolved"
    /\ cfg.glvalue
    /\ cfg.outerCat = "bidirectional" /\ cfg.innerCat = "bidirectional"
    /\ cfg.patCat = "bidirectional"
    /\ cfg.innerCommon /\ ~cfg.patCommon
    /\ cap.concept = "forward"
    /\ ~cap.decrement

\* An iterator of the pair holds an inner iterator, is not at the end, and
\* the cache was last filled from another outer position than its own.
Stale(c) ==
    /\ pc = "shared"
    /\ Live(c)
    /\ it[c].outer_it_ # end_of(view.base_)
    /\ it[c].index = 1
    /\ view.inner_.from # it[c].outer_it_

\* C11: two iterators of one view whose inner ranges are prvalues, stepped in
\* any interleaving: an iterator can hold an inner iterator while the cache
\* was last filled from another outer position than its own (C11_Witness is
\* such a state), and nothing guards it: the iterator is not at the end and
\* can be incremented.  Such a state only comes from the other iterator: the
\* one that filled the cache last is never the stale one, and an iterator
\* alone is never stale.
C11_SharedCache ==
    \A c \in Cursors :
        Stale(c) => /\ owner \in Cursors \ {c}
                    /\ Live(owner)
                    /\ view.inner_.has
                    /\ ~at_end(view, cfg, it[c])

\* Iterator 1 rests in an inner range and the cache holds the later inner
\* range that iterator 2 reads.
C11_Witness ==
    /\ Stale(1)
    /\ ~Stale(2)
    /\ it[2].index = 1
    /\ it[2].outer_it_ > it[1].outer_it_
    /\ view.inner_.from = it[2].outer_it_
    /\ view.inner_.val # range_at(view.base_, it[1].outer_it_)
    /\ ENABLED SharedAdvanceDangling(1)

\* The number of elements of the flattened sequence before the position of i.
Before(v, i) ==
    LET L == Len(Concatenation(SubSeq(v.base_, 1, i.outer_it_ - 1), v.pattern_)) IN
    IF i.outer_it_ = end_of(v.base_) THEN L
    ELSE IF i.index = 0 THEN L + i.pos - 1
    ELSE L + (IF i.outer_it_ > 1 THEN Len(v.pattern_) ELSE 0) + i.pos - 1

\* C12: two iterators of one view whose inner ranges are references, stepped
\* forwards and backwards in any interleaving, share no state that any step
\* writes: the view is as constructed, its cache unused, so a step of one
\* leaves the other as it was, and each iterator, wherever the other is, is
\* at a position n of the flattened sequence, at the end exactly when n is
\* its length, and otherwise reads its element n and moves to n + 1: from
\* begin() it reads all of the flattened sequence.
C12_Independent ==
    pc = "pair" =>
       /\ view = join_with_view(ctor.base, ctor.pattern)
       /\ \A c \in Cursors :
             Live(c) =>
                LET full == Concatenation(view.base_, view.pattern_)
                    n == Before(view, it[c])
                    r == increment(view, cfg, it[c])
                IN  /\ n \in 0..Len(full)
                    /\ at_end(view, cfg, it[c]) <=> n = Len(full)
                    /\ ~at_end(view, cfg, it[c]) =>
                          /\ deref(view, cfg, it[c]) = full[n + 1]
                          /\ Before(view, r.it) = n + 1
                          /\ r.view = view
                    /\ it[c] = view_begin(view, cfg).it => n = 0

\* One iterator in a pattern, the other stepped back from the end.
C12_Witness ==
    /\ pc = "pair"
    /\ cfg = BidirCfg
    /\ Len(view.base_) = 3
    /\ Len(view.pattern_) = 2
    /\ it[1] = [outer_it_ |-> 2, index |-> 0, pos |-> 2]
    /\ it[2] = [outer_it_ |-> 3, index |-> 1, pos |-> 1]
    /\ Drain(view, cfg, it[2]) = view.base_[3]
    /\ view.base_[3] # <<>>

\* C13: constructing the view and its iterators, incrementing, decrementing,
\* dereferencing and comparing them leaves the outer range, its inner ranges
\* and the pattern as they were given to the constructor.
C13_Frame ==
    /\ view.base_ = ctor.base
    /\ view.pattern_ = IF ctor.form = "single" THEN <<ctor.pattern>> ELSE ctor.pattern

\* A traversal forwards and backwards over three non-empty inner ranges.
C13_Witness ==
    /\ pc = "done"
    /\ Len(ctor.base) = 3
    /\ \A k \in 1..3 : ctor.base[k] # <<>>
    /\ Len(view.pattern_) = 2
    /\ out = Concatenation(ctor.base, view.pattern_)
    /\ rout = Reverse(out)

\* The iterator can be dereferenced: the iterator the variant holds is
\* before the end of the pattern, or of the inner range outer_it_ is at.
Readable(v, c, i) ==
    IF i.index = 0
    THEN i.pos \in 1..Len(v.pattern_)
    ELSE /\ i.pos \in 1..Len(range_at(v.base_, i.outer_it_))
         /\ get_inner(v, c, i.outer_it_) = range_at(v.base_, i.outer_it_)

\* C14: after the constructor and after every operator++ the iterator is at
\* the end of the outer range or the iterator its variant holds is before
\* the end of its range, so that it can be dereferenced.
C14_Satisfied ==
    pc \in {"fwd", "adv", "fwddone"} =>
       \/ it[1].outer_it_ = end_of(view.base_)
       \/ /\ Readable(view, cfg, it[1])
          /\ deref(view, cfg, it[1]) # Invalid

\* In the pattern after an empty inner range, and in the inner range that
\* follows two empty ones.
C14_Witness ==
    /\ pc = "fwd"
    /\ Len(view.base_) = 3
    /\ view.base_[1] = <<>> /\ view.base_[2] = <<>> /\ view.base_[3] # <<>>
    /\ \/ it[1] = [outer_it_ |-> 2, index |-> 0, pos |-> 1]
       \/ /\ it[1] = [outer_it_ |-> 3, index |-> 1, pos |-> 1]
          /\ view.pattern_ = <<>>

\* The outer position x has been visited: the iterator holds or has held an
\* inner iterator into the inner range at x.
Visited(v, i, x) ==
    /\ x \in 1..Len(v.base_)
    /\ x < i.outer_it_ \/ (x = i.outer_it_ /\ i.index = 1)

\* C15: with prvalue inner ranges and one iterator, begin() and the forward
\* traversal fill the cache exactly once from every outer position visited
\* (the constructor for the first, satisfy when it leaves the pattern for
\* each later one), never from the end of the outer range, and no get_inner
\* for an outer position comes before the cache was filled from it.
C15_FilledOnce ==
    ~ref_is_glvalue(cfg) =>
       /\ \A x \in DOMAIN view.inner_.filled :
             view.inner_.filled[x] =
                IF pc # "start" /\ Visited(view, it[1], x) THEN 1 ELSE 0
       /\ ~view.inner_.early
       /\ pc = "fwddone" => \A x \in 1..Len(view.base_) : view.inner_.filled[x] = 1

\* The traversal of three inner ranges, the second empty, is complete.
C15_Witness ==
    /\ pc = "fwddone"
    /\ ~ref_is_glvalue(cfg)
    /\ Len(view.base_) = 3
    /\ view.base_[1] # <<>> /\ view.base_[2] = <<>> /\ view.base_[3] # <<>>
    /\ view.pattern_ # <<>>
    /\ \A x \in 1..3 : view.inner_.filled[x] = 1
    /\ view.inner_.filled[4] = 0

\* C16: with prvalue inner ranges and one iterator, every get_inner finds the
\* cache last filled from the outer position the iterator is at, and while
\* the iterator holds an inner iterator the cache holds that inner range.
C16_ReadOwn ==
    ~ref_is_glvalue(cfg) =>
       /\ ~view.inner_.stale
       /\ (pc # "start" /\ it[1].index = 1 /\ it[1].outer_it_ # end_of(view.base_)) =>
             /\ view.inner_.has
             /\ view.inner_.from = it[1].outer_it_
             /\ view.inner_.val = range_at(view.base_, it[1].outer_it_)

\* The iterator reads the third inner range, after satisfy has read the
\* cache for the first two.
C16_Witness ==
    /\ pc = "adv"
    /\ ~ref_is_glvalue(cfg)
    /\ it[1] = [outer_it_ |-> 3, index |-> 1, pos |-> 2]
    /\ view.inner_.from = 3
    /\ view.inner_.filled[1] = 1 /\ view.inner_.filled[2] = 1
    /\ out # <<>> /\ out[Len(out)] = view.inner_.val[2]

\* C17 as the claim words it: at the end of the outer range the variant
\* holds an inner iterator that is itself an end.
C17_EndHoldsInnerAsClaimed ==
    (ref_is_glvalue(cfg) /\ pc # "start" /\ it[1].outer_it_ = end_of(view.base_)) =>
        /\ it[1].index = 1
        /\ it[1].pos = end_of(range_at(view.base_, Len(view.base_)))

\* C17: with reference inner ranges, whenever outer_it_ is the end of the
\* outer range, constructed there or reached by operator++, the variant
\* holds its first alternative, a value-initialised pattern iterator, and
\* never an inner iterator.
C17_EndHoldsPattern ==
    (ref_is_glvalue(cfg) /\ pc # "start" /\ it[1].outer_it_ = end_of(view.base_)) =>
        /\ it[1].index = 0
        /\ it[1].pos = default_iterator.pos

\* The end reached by operator++ from a last inner range that is not empty.
C17_Witness ==
    /\ pc = "fwddone"
    /\ ref_is_glvalue(cfg)
    /\ Len(view.base_) = 2
    /\ view.base_[2] # <<>>
    /\ out = Concatenation(view.base_, view.pattern_)
    /\ it[1] = [outer_it_ |-> 3, index |-> 0, pos |-> 0]

\* C18: with reference inner ranges, an iterator that reaches the end of the
\* outer range by operator++, whatever the outer range and the pattern and
\* whatever operator++ and operator-- came before, equals the iterator
\* constructed at the end of the outer range, which is what end() returns
\* when it returns an iterator.
C18_EqualsEnd ==
    pc = "pair" =>
       \A c \in Cursors :
          Live(c) =>
             LET e == iterator(view, cfg, end_of(view.base_)).it
                 r == increment(view, cfg, it[c]).it
             IN  /\ it[c].outer_it_ = end_of(view.base_) => iterator_eq(it[c], e)
                 /\ (~at_end(view, cfg, it[c]) /\ r.outer_it_ = end_of(view.base_)) =>
                       /\ iterator_eq(r, e)
                       /\ end_is_iterator(cfg) => at_end(view, cfg, r)

\* Iterator 1 is at the last element, in the pattern before an empty last
\* inner range; iterator 2 is at the end, where operator++ takes iterator 1.
C18_Witness ==
    /\ pc = "pair"
    /\ Live(1) /\ Live(2)
    /\ Len(view.base_) = 3
    /\ view.base_[3] = <<>>
    /\ Len(view.pattern_) = 2
    /\ it[1] = [outer_it_ |-> 3, index |-> 0, pos |-> 2]
    /\ increment(view, cfg, it[1]).it = it[2]
    /\ it[2].outer_it_ = end_of(view.base_)
    /\ cmp.valid /\ ~cmp.eq

\* |O[0]| + ... + |O[n-1]|
RECURSIVE SumLen(_)
SumLen(O) ==
    IF O = <<>> THEN 0 ELSE Len(O[1]) + SumLen(Tail(O))

\* The number of operator++ a traversal of a non-empty outer range takes.
Advances(O, P) ==
    SumLen(O) + (Len(O) - 1) * Len(P)

\* The state part of C19: `out` has one element for every operator++ done.
C19_Count ==
    /\ (pc \in {"fwd", "adv"} /\ view.base_ # <<>>) =>
          /\ Len(out) <= Advances(view.base_, view.pattern_)
          /\ LET r == increment(view, cfg, it[1]).it IN
                ~at_end(view, cfg, it[1]) =>
                    r.outer_it_ \in it[1].outer_it_..end_of(view.base_)
    /\ (pc = "fwd" /\ view.base_ # <<>>) =>
          (at_end(view, cfg, it[1]) <=>
              Len(out) = Advances(view.base_, view.pattern_))
    /\ (pc = "fwddone" /\ view.base_ # <<>>) =>
          Len(out) = Advances(view.base_, view.pattern_)

\* C19: every satisfy ends, at the outer position it started from or a later
\* one up to the end, and operator++ repeated from begin() of a non-empty
\* outer range reaches the end, after exactly
\* |O[0]| + ... + |O[n-1]| + (n - 1) * |P| increments and not before: an
\* empty inner range never holds the traversal up.
C19_Progress ==
    []C19_Count /\ <>Traversed

\* The end reached over empty inner ranges only, by the pattern's elements.
C19_Witness ==
    /\ pc = "fwddone"
    /\ Len(view.base_) = 3
    /\ \A k \in 1..3 : view.base_[k] = <<>>
    /\ Len(view.pattern_) = 2
    /\ Len(out) = 4

\* C20 as the claim words it: end() returns an iterator only for a view
\* whose iterators are bidirectional and whose outer range, inner ranges and
\* pattern are common.
C20_EndAsClaimed ==
    (pc = "resolved" /\ cap.end = "iterator") =>
        /\ cap.concept = "bidirectional"
        /\ cfg.outerCommon /\ cfg.innerCommon /\ cfg.patCommon

\* C20: end() returns an iterator exactly when the inner ranges are
\* references and the outer range and the inner ranges are forward and
\* common, and a sentinel otherwise.  The pattern and the iterator concept
\* play no part: the iterators are then forward or bidirectional, and a view
\* with bidirectional iterators and a common outer range gets an iterator.
C20_End ==
    pc = "resolved" =>
       /\ cap.end \in {"iterator", "sentinel"}
       /\ cap.end = "iterator" <=>
             /\ cfg.glvalue
             /\ cfg.outerCat \in ForwardCats /\ cfg.innerCat \in ForwardCats
             /\ cfg.outerCommon /\ cfg.innerCommon
       /\ cap.end = "iterator" => cap.concept \in {"forward", "bidirectional"}
       /\ (cap.concept = "bidirectional" /\ cfg.outerCommon) => cap.end = "iterator"
       /\ \A d \in AllCfgs :
             (/\ d.glvalue = cfg.glvalue /\ d.outerCat = cfg.outerCat
              /\ d.innerCat = cfg.innerCat /\ d.outerCommon = cfg.outerCommon
              /\ d.innerCommon = cfg.innerCommon)
                => (end_is_iterator(d) <=> cap.end = "iterator")

\* A forward-only view with common outer and inner ranges: end() is an
\* iterator and there is no operator--.
C20_Witness ==
    /\ pc = "resolved"
    /\ cfg.outerCat = "forward" /\ cfg.innerCat = "forward"
    /\ ~cfg.patCommon
    /\ cap.end = "iterator"
    /\ cap.concept = "forward"
    /\ ~cap.decrement

\* C21: with operator--, the two steps undo each other on the iterator, not
\* only on the element read: for every iterator reached from begin() or
\* end() by increments and decrements, whatever the outer range and the
\* pattern, an iterator not at the end equals itself incremented and then
\* decremented, and an iterator other than begin(), the end included, equals
\* itself decremented and then incremented; being equal, the two hold the
\* same outer position and the same alternative at the same position.
C21_Inverse ==
    (pc \in WalkPcs /\ has_decrement(cfg)) =>
       LET c == it[1]
           a == increment(view, cfg, c).it
           r == decrement(view, c)
       IN  /\ ~at_end(view, cfg, c) =>
                 /\ iterator_eq(decrement(view, a), c)
                 /\ decrement(view, a) = c
           /\ ~iterator_eq(c, view_begin(view, cfg).it) =>
                 /\ iterator_eq(increment(view, cfg, r).it, c)
                 /\ increment(view, cfg, r).it = c

\* Decremented to the pattern between two empty inner ranges, from where an
\* increment leads over the empty last inner range to the end.
C21_Witness ==
    /\ pc = "retreated"
    /\ has_decrement(cfg)
    /\ Len(view.base_) = 3
    /\ view.base_[2] = <<>> /\ view.base_[3] = <<>>
    /\ Len(view.pattern_) = 2
    /\ it[1] = [outer_it_ |-> 3, index |-> 0, pos |-> 2]
    /\ at_end(view, cfg, increment(view, cfg, it[1]).it)
    /\ decrement(view, increment(view, cfg, it[1]).it) = it[1]

\* C22: for every iterator reached from begin() or end() by legal steps and
\* not at the end, a variant holding a pattern iterator implies that
\* outer_it_ is neither the first outer position nor the end: the pattern
\* read is the one before the inner range outer_it_ is at, so the element
\* read stands after O[0] and before O[n-1] in the flattened sequence.
C22_PatternBetween ==
    (pc \in WalkPcs /\ ~at_end(view, cfg, it[1]) /\ it[1].index = 0) =>
       LET full == Concatenation(view.base_, view.pattern_)
           head == Concatenation(SubSeq(view.base_, 1, it[1].outer_it_ - 1),
                                 view.pattern_)
           n == Len(head) + it[1].pos
       IN  /\ it[1].outer_it_ > begin_of(view.base_)
           /\ it[1].outer_it_ < end_of(view.base_)
           /\ it[1].pos \in 1..Len(view.pattern_)
           /\ n \in (Len(view.base_[1]) + 1)..
                    (Len(full) - Len(view.base_[Len(view.base_)]))
           /\ deref(view, cfg, it[1]) = full[n]
           /\ SubSeq(full, 1, Len(head)) = head

\* In the pattern before an empty last inner range, reached by operator--
\* from the end, and in the pattern after an empty first one, by operator++.
C22_Witness ==
    /\ Len(view.base_) = 3
    /\ view.base_[1] = <<>> /\ view.base_[2] # <<>> /\ view.base_[3] = <<>>
    /\ Len(view.pattern_) = 2
    /\ \/ pc = "retreated" /\ it[1] = [outer_it_ |-> 3, index |-> 0, pos |-> 2]
       \/ pc = "advanced" /\ it[1] = [outer_it_ |-> 2, index |-> 0, pos |-> 2]

\* C23: operator-- on an iterator other than begin(), the end included and
\* next to empty inner ranges or with an empty pattern, leaves the iterator
\* where it can be dereferenced: outer_it_ is not the end and the iterator
\* the variant holds is before the end of its range; the final --it is
\* never done on an iterator at the begin of its range, nor --outer_it_ at
\* the begin of the outer range.
C23_RetreatReadable ==
    /\ pc = "retreated" =>
          /\ it[1].outer_it_ # end_of(view.base_)
          /\ Readable(view, cfg, it[1])
          /\ deref(view, cfg, it[1]) # Invalid
    /\ (pc \in WalkPcs /\ has_decrement(cfg)
           /\ ~iterator_eq(it[1], view_begin(view, cfg).it)) =>
          LET r == decrement(view, it[1]) IN
             /\ r.outer_it_ \in begin_of(view.base_)..Len(view.base_)
             /\ r.pos >= begin_of(view.pattern_)
             /\ Readable(view, cfg, r)
             /\ Before(view, r) + 1 = Before(view, it[1])

\* Decremented from the end over two empty inner ranges and an empty
\* pattern to the last element of the first inner range.
C23_Witness ==
    /\ pc = "retreated"
    /\ Len(view.base_) = 3
    /\ Len(view.base_[1]) = 2 /\ view.base_[2] = <<>> /\ view.base_[3] = <<>>
    /\ view.pattern_ = <<>>
    /\ it[1] = [outer_it_ |-> 1, index |-> 1, pos |-> 2]
    /\ at_end(view, cfg, increment(view, cfg, it[1]).it)

====
